---- MODULE Spec2Model ----
(***************************************************************************)
(* Model of src/src/lib.rs: the landmark store and interference field of   *)
(* QuantumSlamCore, and the ping-pong render loop of QuantumRenderer.      *)
(*                                                                         *)
(* Numbers.  An f32 value v is held as the integer v * 2^24 (so One is     *)
(* 1.0 and the unit is 2^-24).  Every arithmetic result is rounded to 24   *)
(* significant bits, ties to even, as IEEE-754 binary32 does.  For         *)
(* magnitudes in [1/2, 64) the values held are exactly the f32 values; for *)
(* magnitudes below 1/2 the grid 2^-24 is coarser than f32's.  Sums,       *)
(* differences and products of the small dyadic coordinates used as inputs *)
(* are exact in f32 and exact here.  sqrt is the correctly rounded f32     *)
(* square root.  exp, sin and cos are series evaluations that are exact at *)
(* 0 (exp 0 = 1, cos 0 = 1, sin 0 = 0) and agree with the platform's libm  *)
(* to a few units elsewhere; Rust leaves their precision unspecified.      *)
(***************************************************************************)
EXTENDS Integers, Sequences, FiniteSets, TLC

----------------------------------------------------------------------------
(* f32 arithmetic *)

One == 2^24
Half == 2^23

\* The number of bits of n >= 0 beyond 24: 0 when n < 2^24, else k - 24 for
\* 2^(k-1) <= n < 2^k (n < 2^31).
RECURSIVE ExtraBits(_, _)
ExtraBits(n, e) ==
    IF e = 7 \/ n < 2^(24 + e) THEN e ELSE ExtraBits(n, e + 1)

Abs(x) == IF x < 0 THEN -x ELSE x

Sign(x) == IF x < 0 THEN -1 ELSE 1

\* q + 1 when the discarded part (r of 2*half, plus a sticky bit) rounds up,
\* ties to even.
RoundNearestEven(q, r, half, sticky) ==
    IF r > half \/ (r = half /\ (sticky \/ q % 2 = 1)) THEN q + 1 ELSE q

\* The f32 nearest to the non-negative exact value a + frac / 2^24
\* (0 <= frac < 2^24).
F32RoundParts(a, frac) ==
    LET e == ExtraBits(a, 0)
    IN  IF e = 0
        THEN RoundNearestEven(a, frac, Half, FALSE)
        ELSE LET sh == 2^e
             IN  RoundNearestEven(a \div sh, a % sh, sh \div 2, frac # 0) * sh

\* `as f32`, and the rounding of every f32 operation.
F32Round(x) == Sign(x) * F32RoundParts(Abs(x), 0)

F32Add(a, b) == F32Round(a + b)

F32Sub(a, b) == F32Round(a - b)

\* a * b: the exact product |a| * |b| / 2^24 is formed in 12-bit limbs
\* (no intermediate exceeds 31 bits for |a|, |b| < 2^30) and rounded once.
F32Mul(a, b) ==
    LET x == Abs(a)
        y == Abs(b)
        xh == x \div 4096
        xl == x % 4096
        yh == y \div 4096
        yl == y % 4096
        mid == xh * yl + xl * yh
        low == (mid % 4096) * 4096 + xl * yl
        int == xh * yh + mid \div 4096 + low \div One
    IN  Sign(a) * Sign(b) * F32RoundParts(int, low % One)

\* Restoring square root of x * 2^24, two bits of the radicand at a time:
\* <<floor of the root, remainder>>.
RECURSIVE SqrtStep(_, _, _, _)
SqrtStep(x, i, root, rem) ==
    IF i < 0 THEN <<root, rem>>
    ELSE LET pair == IF i >= 12 THEN (x \div 4^(i - 12)) % 4 ELSE 0
             r2 == rem * 4 + pair
             t == root * 4 + 1
         IN  IF r2 >= t
             THEN SqrtStep(x, i - 1, root * 2 + 1, r2 - t)
             ELSE SqrtStep(x, i - 1, root * 2, r2)

\* f32::sqrt, correctly rounded, for x >= 0.
F32Sqrt(x) ==
    LET s == SqrtStep(x, 27, 0, 0)
        root == s[1]
        rem == s[2]
        e == ExtraBits(root, 0)
    IN  IF e = 0
        THEN (IF rem > root THEN root + 1 ELSE root)
        ELSE LET sh == 2^e
             IN  RoundNearestEven(root \div sh, root % sh, sh \div 2, rem # 0) * sh

\* 1 - (f/k) * (1 - (f/(k+1)) * (...)): the series of exp(-f), terms k..n.
RECURSIVE ExpSeries(_, _, _)
ExpSeries(f, k, n) ==
    IF k > n THEN One
    ELSE F32Sub(One, F32Mul(f \div k, ExpSeries(f, k + 1, n)))

\* f32::exp for x <= 0: exp(x) = 2^-m * exp(-f), -x = m * ln 2 + f.
F32Exp(x) ==
    LET ln2 == 11629080
        y == -x
        m == y \div ln2
        f == y % ln2
        e == ExpSeries(f, 1, 10)
    IN  IF m = 0 THEN e
        ELSE IF m >= 25 THEN 0
        ELSE RoundNearestEven(e \div 2^m, e % 2^m, 2^m \div 2, FALSE)

\* x reduced to [-pi, pi].
ReduceAngle(x) ==
    LET twoPi == 105414358
        r == x % twoPi
    IN  IF 2 * r > twoPi THEN r - twoPi ELSE r

\* r in [-pi, pi] folded into [-pi/2, pi/2]: <<r', s>> with
\* sin r = sin r' and cos r = s * cos r'.
FoldAngle(r) ==
    LET pi == 52707179
    IN  IF 2 * r > pi THEN <<pi - r, -1>>
        ELSE IF 2 * r < -pi THEN <<-pi - r, -1>>
        ELSE <<r, 1>>

\* 1 - z/((k)(k+1)) * (1 - z/((k+2)(k+3)) * (...)), z = r^2.
RECURSIVE TrigSeries(_, _, _)
TrigSeries(z, k, n) ==
    IF k > n THEN One
    ELSE F32Sub(One, F32Mul(z \div (k * (k + 1)), TrigSeries(z, k + 2, n)))

\* f32::cos / f64::cos.
F32Cos(x) ==
    LET f == FoldAngle(ReduceAngle(x))
    IN  f[2] * TrigSeries(F32Mul(f[1], f[1]), 1, 13)

\* f32::sin / f64::sin.
F32Sin(x) ==
    LET f == FoldAngle(ReduceAngle(x))
    IN  F32Mul(f[1], TrigSeries(F32Mul(f[1], f[1]), 2, 14))

----------------------------------------------------------------------------
(* QuantumSlamCore: the landmark store and the interference field *)

MaxLandmarks == 2

\* The observer, landmark and query positions drawn as inputs: small dyadic
\* coordinates, so that differences, squares and their sums are exact in f32.
Points ==
    { <<0, 0>>, <<3 * One, 4 * One>>, <<One, One>>, <<-Half, Half>> }

\* The wave numbers given to new(); `wave_number as f32` is exact for them.
WaveNumbers == {One, 8 * One}

VARIABLES
    core,        \* the QuantumSlamCore: [landmarks, wave_number]
    call,        \* the latest call on it: [op, x, y, ret]
    observer,    \* the point of the latest observe() if no landmark was
                 \* added since, else <<>>
    renderer,    \* the QuantumRenderer and the contents of its GPU resources
    tick,        \* what the latest render() did
    called,      \* the latest call on the renderer
    renders      \* the number of render() calls completed

coreVars == <<core, call, observer>>

rendererVars == <<renderer, tick, called, renders>>

vars == <<core, call, observer, renderer, tick, called, renders>>

\* Landmark { position: [x, y], observed_dist: 0.0, confidence: 1.0,
\*            phase_offset: 0.0 }
Landmark(x, y) ==
    [position |-> <<x, y>>, observed_dist |-> 0, confidence |-> One,
     phase_offset |-> 0]

\* QuantumSlamCore::new
new(wave_number) == [landmarks |-> <<>>, wave_number |-> wave_number]

\* add_landmark putting the new landmark in front of the others.
add_landmark_front(self, x, y) ==
    [self EXCEPT !.landmarks = <<Landmark(x, y)>> \o @]

\* QuantumSlamCore::add_landmark: self.landmarks.push(..)
add_landmark(self, x, y) ==
    [self EXCEPT !.landmarks = Append(@, Landmark(x, y))]

\* The distance as |dx| + |dy|.
ObservedDistTaxicab(lm, true_cam_x, true_cam_y) ==
    LET dx == F32Sub(lm.position[1], true_cam_x)
        dy == F32Sub(lm.position[2], true_cam_y)
    IN  F32Add(Abs(dx), Abs(dy))

\* The body of the loop of observe: (dx * dx + dy * dy).sqrt()
ObservedDist(lm, true_cam_x, true_cam_y) ==
    LET dx == F32Sub(lm.position[1], true_cam_x)
        dy == F32Sub(lm.position[2], true_cam_y)
    IN  F32Sqrt(F32Add(F32Mul(dx, dx), F32Mul(dy, dy)))

\* QuantumSlamCore::observe
observe(self, true_cam_x, true_cam_y) ==
    [self EXCEPT !.landmarks =
        [i \in 1..Len(self.landmarks) |->
            [self.landmarks[i] EXCEPT !.observed_dist =
                ObservedDist(self.landmarks[i], true_cam_x, true_cam_y)]]]

\* The residual with the query point's coordinates crossed over.
ResidualCrossed(lm, x, y) ==
    LET dx == F32Sub(y, lm.position[1])
        dy == F32Sub(x, lm.position[2])
        hypo_dist == F32Sqrt(F32Add(F32Mul(dx, dx), F32Mul(dy, dy)))
    IN  F32Sub(hypo_dist, lm.observed_dist)

\* hypo_dist - lm.observed_dist of probability_at
Residual(lm, x, y) ==
    LET dx == F32Sub(x, lm.position[1])
        dy == F32Sub(y, lm.position[2])
        hypo_dist == F32Sqrt(F32Add(F32Mul(dx, dx), F32Mul(dy, dy)))
    IN  F32Sub(hypo_dist, lm.observed_dist)

\* One turn of the loop of probability_at: <<re_sum, im_sum>> after lm.
Contribution(sums, lm, wave_number, x, y) ==
    LET residual == Residual(lm, x, y)
        phase == F32Mul(F32Round(wave_number), residual)
        amp == F32Mul(lm.confidence, F32Exp(F32Mul(-2 * One, Abs(residual))))
    IN  <<F32Add(sums[1], F32Mul(amp, F32Cos(phase))),
          F32Add(sums[2], F32Mul(amp, F32Sin(phase)))>>

RECURSIVE Accumulate(_, _, _, _, _, _)
Accumulate(lms, i, wave_number, x, y, sums) ==
    IF i > Len(lms) THEN sums
    ELSE Accumulate(lms, i + 1, wave_number, x, y,
                    Contribution(sums, lms[i], wave_number, x, y))

\* QuantumSlamCore::probability_at; the widening `as f64` is exact.
probability_at(self, x, y) ==
    LET sums == Accumulate(self.landmarks, 1, self.wave_number, x, y, <<0, 0>>)
    IN  F32Add(F32Mul(sums[1], sums[1]), F32Mul(sums[2], sums[2]))

\* What `call.ret` holds after a call that returns nothing.
NoRet == 0 - 1


CoreInit ==
    /\ \E wave_number \in WaveNumbers : core = new(wave_number)
    /\ call = [op |-> "new", x |-> 0, y |-> 0, ret |-> NoRet]
    /\ observer = <<>>

AddLandmark ==
    /\ Len(core.landmarks) < MaxLandmarks
    /\ \E p \in Points :
        /\ core' = add_landmark(core, p[1], p[2])
        /\ call' = [op |-> "add_landmark", x |-> p[1], y |-> p[2], ret |-> NoRet]
    /\ observer' = <<>>
    /\ UNCHANGED rendererVars

Observe ==
    /\ \E p \in Points :
        /\ core' = observe(core, p[1], p[2])
        /\ call' = [op |-> "observe", x |-> p[1], y |-> p[2], ret |-> NoRet]
        /\ observer' = p
    /\ UNCHANGED rendererVars

ProbabilityAt ==
    /\ \E p \in Points :
        call' = [op |-> "probability_at", x |-> p[1], y |-> p[2],
                 ret |-> probability_at(core, p[1], p[2])]
    /\ UNCHANGED <<core, observer>>
    /\ UNCHANGED rendererVars

----------------------------------------------------------------------------
(* QuantumRenderer: the frame state driver and the feedback render loop *)

MaxFrames == 4

\* u32 values are pairs <<high 16 bits, low 16 bits>>.
U32(n) == <<n \div 65536, n % 65536>>

\* The value of a u32 below 2^31.
U32Val(a) == a[1] * 65536 + a[2]

\* a + b on u32, modulo 2^32.
U32Add(a, b) ==
    LET lo == a[2] + b[2]
    IN  <<(a[1] + b[1] + lo \div 65536) % 65536, lo % 65536>>

\* a / d on u32, for 0 < d <= 65536.
U32Div(a, d) == <<a[1] \div d, ((a[1] % d) * 65536 + a[2]) \div d>>

\* `a as f32` for a u32 below 2^31: the integer rounded to 24 significant
\* bits, ties to even, held as a pair like a u32.
U32AsF32(a) ==
    LET e == ExtraBits(a[1] * 65536, 0)
        sh == 2^e
        lo == RoundNearestEven(a[2] \div sh, a[2] % sh, sh \div 2, FALSE) * sh
    IN  IF e = 0 THEN a
        ELSE IF lo = 65536 THEN <<a[1] + 1, 0>>
        ELSE <<a[1], lo>>

\* canvas.width() and canvas.height(): the sizes drawn for the surface. The
\* canvas reports an unsigned long of at most 2^31 - 1.
CanvasSizes ==
    { <<0, 0>>, <<1, 16>>, <<15, 17>>, <<300, 150>>, <<640, 480>>,
      <<65535, 65536>>, <<16777217, 33554431>>, <<2147483647, 2147483632>> }

\* js_sys::Date::now() at construction, and the later readings of the clock
\* in update(), in milliseconds.
StartTimes == {1000}

Elapsed == {0, 500, 1250}

\* The landmark buffer holds 100 Landmark records.
LandmarkCapacity == 100

\* The side of a workgroup tile.
TileSize == 16

\* The content of a field texture: the dispatch that wrote it (0: never
\* written) and the dispatch that wrote the frame it read as previous.
BlankFrame == [tick |-> 0, prev |-> 0]

\* The uniform buffer as created: zeroed.
ZeroUniforms ==
    [ resolution |-> <<U32(0), U32(0)>>, time |-> 0, wave_number |-> 0,
      decay_factor |-> 0, feedback_strength |-> 0, num_landmarks |-> 0,
      pad |-> 0, camera_pos |-> <<0, 0>> ]

\* The landmarks QuantumRenderer::new starts with.
InitialLandmarks ==
    << [position |-> <<0, Half>>, observed_dist |-> 0, confidence |-> One,
        phase_offset |-> 0],
       [position |-> <<Half, -Half>>, observed_dist |-> 0, confidence |-> One,
        phase_offset |-> 0],
       [position |-> <<-Half, -Half>>, observed_dist |-> 0, confidence |-> One,
        phase_offset |-> 0] >>

\* QuantumRenderer::new. The buffers and textures start zeroed; the surface
\* has been configured once and shows nothing.
NewRenderer(width, height, now) ==
    [ start_time |-> now,
      frame_count |-> 0,
      landmarks |-> InitialLandmarks,
      camera_pos |-> <<0, 0>>,
      width |-> U32(width),
      height |-> U32(height),
      texture_a |-> BlankFrame,
      texture_b |-> BlankFrame,
      uniform_buffer |-> ZeroUniforms,
      landmark_buffer |-> <<>>,
      surface |-> [configured |-> 1, frame |-> BlankFrame] ]

\* (now - self.start_time) / 1000.0, the f64 quotient held to 2^-21.
ElapsedSeconds(self, now) ==
    LET ms == now - self.start_time
    IN  (ms \div 1000) * One + (((ms % 1000) * 2^21) \div 1000) * 8

\* The scripted camera: [sin(t * 0.5) as f32 * 0.5, cos(t * 0.3) as f32 * 0.5]
CameraPos(t) ==
    LET threeTenths == 5033165
    IN  << F32Mul(F32Round(F32Sin(F32Mul(t, Half))), Half),
           F32Mul(F32Round(F32Cos(F32Mul(t, threeTenths))), Half) >>

\* The loop of update over one landmark.
Reobserve(lm, camera_pos, t) ==
    LET dx == F32Sub(lm.position[1], camera_pos[1])
        dy == F32Sub(lm.position[2], camera_pos[2])
    IN  [lm EXCEPT
            !.observed_dist = F32Sqrt(F32Add(F32Mul(dx, dx), F32Mul(dy, dy))),
            !.phase_offset = F32Mul(F32Sin(F32Mul(F32Round(t), 2 * One)), Half)]

\* num_landmarks packed as the buffer's capacity, not the store's length.
NumLandmarksCapacity(landmarks) == LandmarkCapacity

\* `self.landmarks.len() as u32`; no length here reaches 2^32.
NumLandmarks(landmarks) == Len(landmarks)

\* The Uniforms block of update.
PackUniforms(self, t) ==
    [ resolution |-> <<U32AsF32(self.width), U32AsF32(self.height)>>,
      time |-> F32Round(t),
      wave_number |-> 80 * One,
      decay_factor |-> 5 * One,
      feedback_strength |-> 15099494,
      num_landmarks |-> NumLandmarks(self.landmarks),
      pad |-> 0,
      camera_pos |-> self.camera_pos ]

\* queue.write_buffer(buffer, 0, data) on the landmark buffer: the records
\* replace the front of the buffer; a write past the buffer's end is refused.
WriteLandmarks(buffer, data) ==
    IF Len(data) > LandmarkCapacity THEN buffer
    ELSE data \o SubSeq(buffer, Len(data) + 1, Len(buffer))

\* QuantumRenderer::update
update(self, now) ==
    LET t == ElapsedSeconds(self, now)
        camera_pos == CameraPos(t)
        landmarks == [i \in 1..Len(self.landmarks) |->
                        Reobserve(self.landmarks[i], camera_pos, t)]
        moved == [self EXCEPT !.camera_pos = camera_pos,
                              !.landmarks = landmarks]
    IN  [moved EXCEPT
            !.landmark_buffer = WriteLandmarks(@, landmarks),
            !.uniform_buffer = PackUniforms(moved, t)]

\* Roles with the parity test the wrong way round.
RolesInverted(frame_count) ==
    IF frame_count % 2 = 1
    THEN [input |-> "A", output |-> "B", source |-> "B"]
    ELSE [input |-> "B", output |-> "A", source |-> "A"]

\* Roles whose second branch repeats the first: the buffers never swap.
RolesNoSwap(frame_count) ==
    IF frame_count % 2 = 0
    THEN [input |-> "A", output |-> "B", source |-> "B"]
    ELSE [input |-> "A", output |-> "B", source |-> "B"]

\* The ping-pong roles of render, by the parity of the frame counter:
\* (input_view, output_view, source_tex).
Roles(frame_count) ==
    IF frame_count % 2 = 0
    THEN [input |-> "A", output |-> "B", source |-> "B"]
    ELSE [input |-> "B", output |-> "A", source |-> "A"]

\* The grid without the + 15: dim / 16, rounding down.
DispatchGroupsFloor(dim) == U32Div(dim, TileSize)

\* (dim + 15) / 16 of dispatch_workgroups, in u32.
DispatchGroups(dim) == U32Div(U32Add(dim, U32(TileSize - 1)), TileSize)

\* The surface's answers to get_current_texture: a frame, or a SurfaceError.
SurfaceResults == {"Ok", "Timeout", "Outdated", "Lost", "OutOfMemory"}

\* QuantumRenderer::get_current_texture: whether a frame was acquired, and
\* the surface afterwards.
get_current_texture(surface, result) ==
    IF result = "Ok" THEN [acquired |-> TRUE, surface |-> surface]
    ELSE IF result = "Lost"
    THEN [acquired |-> FALSE,
          surface |-> [surface EXCEPT !.configured = @ + 1]]
    ELSE [acquired |-> FALSE, surface |-> surface]

\* The commands with the copy recorded ahead of the compute pass.
CommandsCopyFirst(roles, groups, acquired) ==
    (IF acquired
     THEN << [cmd |-> "copy", from |-> roles.source, to |-> "frame",
              groups |-> <<>>] >>
     ELSE <<>>)
    \o << [cmd |-> "dispatch", from |-> roles.input, to |-> roles.output,
           groups |-> groups] >>

\* The commands render records in its encoder, in order: the compute pass,
\* then the copy to the surface frame when one was acquired.
Commands(roles, groups, acquired) ==
    << [cmd |-> "dispatch", from |-> roles.input, to |-> roles.output,
        groups |-> groups] >>
    \o (IF acquired
        THEN << [cmd |-> "copy", from |-> roles.source, to |-> "frame",
                 groups |-> <<>>] >>
        ELSE <<>>)

\* The steps of render on the host, in program order.
HostSteps(acquired) ==
    IF acquired
    THEN <<"dispatch_workgroups", "get_current_texture",
           "copy_texture_to_texture", "submit", "present">>
    ELSE <<"dispatch_workgroups", "get_current_texture", "submit">>

\* The GPU runs a submitted command buffer in order. mem holds what the
\* textures A and B and the acquired surface frame contain; n numbers the
\* dispatch.
RECURSIVE Execute(_, _, _, _)
Execute(commands, i, mem, n) ==
    IF i > Len(commands) THEN mem
    ELSE LET c == commands[i]
         IN  IF c.cmd = "dispatch"
             THEN Execute(commands, i + 1,
                          [mem EXCEPT ![c.to] =
                              [tick |-> n, prev |-> mem[c.from].tick]], n)
             ELSE Execute(commands, i + 1,
                          [mem EXCEPT ![c.to] = mem[c.from]], n)

\* QuantumRenderer::render, but for the frame counter.
RenderTick(self, result) ==
    LET roles == Roles(self.frame_count)
        groups == <<DispatchGroups(self.width), DispatchGroups(self.height),
                    U32(1)>>
        got == get_current_texture(self.surface, result)
        commands == Commands(roles, groups, got.acquired)
        mem == Execute(commands, 1,
                       [A |-> self.texture_a, B |-> self.texture_b,
                        frame |-> BlankFrame],
                       self.frame_count + 1)
    IN  [self EXCEPT
            !.texture_a = mem.A,
            !.texture_b = mem.B,
            !.surface = IF got.acquired
                        THEN [got.surface EXCEPT !.frame = mem.frame]
                        ELSE got.surface]

\* render with the increment inside the branch that presents.
render_counts_presented(self, result) ==
    IF get_current_texture(self.surface, result).acquired
    THEN [RenderTick(self, result) EXCEPT !.frame_count = @ + 1]
    ELSE RenderTick(self, result)

\* QuantumRenderer::render
render(self, result) ==
    [RenderTick(self, result) EXCEPT !.frame_count = @ + 1]

\* What a render() call did, for the record: its roles, grid, commands and
\* host steps.
TickRecord(self, result) ==
    LET roles == Roles(self.frame_count)
        acquired == get_current_texture(self.surface, result).acquired
        groups == <<DispatchGroups(self.width), DispatchGroups(self.height),
                    U32(1)>>
    IN  [ result |-> result,
          input |-> roles.input,
          output |-> roles.output,
          source |-> roles.source,
          groups |-> groups,
          commands |-> Commands(roles, groups, acquired),
          host |-> HostSteps(acquired) ]

NoTick ==
    [ result |-> "", input |-> "", output |-> "", source |-> "",
      groups |-> <<>>, commands |-> <<>>, host |-> <<>> ]

RendererInit ==
    /\ \E size \in CanvasSizes, now \in StartTimes :
        renderer = NewRenderer(size[1], size[2], now)
    /\ tick = NoTick
    /\ called = "new"
    /\ renders = 0

Update ==
    /\ \E ms \in Elapsed :
        renderer' = update(renderer, renderer.start_time + ms)
    /\ called' = "update"
    /\ UNCHANGED <<tick, renders>>
    /\ UNCHANGED coreVars

Render ==
    /\ renders < MaxFrames
    /\ \E result \in SurfaceResults :
        /\ renderer' = render(renderer, result)
        /\ tick' = TickRecord(renderer, result)
    /\ called' = "render"
    /\ renders' = renders + 1
    /\ UNCHANGED coreVars

----------------------------------------------------------------------------
(* Specifications *)

\* The render session: the host calls update() and render() in any order.
Init ==
    /\ RendererInit
    /\ core = new(One)
    /\ call = [op |-> "new", x |-> 0, y |-> 0, ret |-> NoRet]
    /\ observer = <<>>

Next == Update \/ Render

Spec == Init /\ [][Next]_vars

\* The landmark store and field model, called in any order.
InitCore ==
    /\ CoreInit
    /\ renderer = NewRenderer(0, 0, 0)
    /\ tick = NoTick
    /\ called = "new"
    /\ renders = 0

NextCore == AddLandmark \/ Observe \/ ProbabilityAt

SpecCore == InitCore /\ [][NextCore]_vars

\* The render loop alone, over a dense sample of canvas sizes: every size up
\* to three tiles, and the sizes around 2^16, 2^24 (where `as f32` starts to
\* round) and the largest a canvas reports.
GridDims ==
    (0..48) \cup (65535..65537) \cup (16777215..16777217)
        \cup {2147483647 - k : k \in 0..16}

InitGrid ==
    /\ \E size \in CanvasSizes \cup {<<d, d>> : d \in GridDims},
          now \in StartTimes :
        renderer = NewRenderer(size[1], size[2], now)
    /\ tick = NoTick
    /\ called = "new"
    /\ renders = 0
    /\ core = new(One)
    /\ call = [op |-> "new", x |-> 0, y |-> 0, ret |-> NoRet]
    /\ observer = <<>>

NextGrid == Render

SpecGrid == InitGrid /\ [][NextGrid]_vars

----------------------------------------------------------------------------
(* The render loop's properties *)

\* The texture of the pair named by a role.
Texture(name) == IF name = "A" THEN renderer.texture_a ELSE renderer.texture_b

OtherBuffer(name) == IF name = "A" THEN "B" ELSE "A"

\* The buffer the parity convention names after n render ticks.
ParityBuffer(n) == IF n % 2 = 1 THEN "B" ELSE "A"

\* C1: after N >= 1 render() calls the most recent evaluator output is in
\* buffer B when N is odd and in buffer A when N is even, and the other
\* buffer holds the output of the tick before (the output buffer alternates
\* every tick, none skipped), whatever update() calls and acquisition
\* failures came in between.
C1_PingPongParity ==
    renders >= 1 =>
        /\ tick.output = ParityBuffer(renders)
        /\ Texture(ParityBuffer(renders)).tick = renders
        /\ Texture(OtherBuffer(ParityBuffer(renders))).tick = renders - 1

C1_Witness ==
    /\ renders = 3
    /\ renderer.texture_b.tick = 3
    /\ renderer.texture_a.tick = 2
    /\ tick.result = "Timeout"
    /\ called = "update"

\* C2: every render() call adds exactly one to the frame counter, whether or
\* not a surface frame was acquired; update() leaves it alone; so the counter
\* equals the number of render ticks completed.
C2_FrameCounter ==
    /\ [][/\ called' = "render" =>
                renderer'.frame_count = renderer.frame_count + 1
          /\ called' = "update" =>
                renderer'.frame_count = renderer.frame_count]_vars
    /\ [](renderer.frame_count = renders)

C2_Witness ==
    /\ renders = 2
    /\ renderer.frame_count = 2
    /\ tick.result = "Lost"
    /\ renderer.surface.frame.tick = 1

\* The answers that report the surface itself lost or no longer valid.
SurfaceInvalid == {"Lost", "Outdated"}

\* C3: a render tick that finds the surface lost or otherwise invalid
\* reconfigures the surface and presents nothing, yet its dispatch lands in
\* the output buffer and the frame counter advances; the landmarks, the
\* camera position and the clock origin stay as they were, and the tick
\* still asked the surface for a frame.
C3_SurfaceLossRecovery ==
    [][(called' = "render" /\ tick'.result \in SurfaceInvalid) =>
            /\ renderer'.surface.configured = renderer.surface.configured + 1
            /\ renderer'.surface.frame = renderer.surface.frame
            /\ tick'.host = <<"dispatch_workgroups", "get_current_texture",
                              "submit">>
            /\ (IF tick'.output = "A" THEN renderer'.texture_a
                                      ELSE renderer'.texture_b).tick
                    = renderer.frame_count + 1
            /\ renderer'.frame_count = renderer.frame_count + 1
            /\ renderer'.landmarks = renderer.landmarks
            /\ renderer'.camera_pos = renderer.camera_pos
            /\ renderer'.start_time = renderer.start_time]_vars

\* C4: update() never writes more landmark records than the landmark buffer
\* holds (100), all of them land in the buffer, and the num_landmarks it
\* packs into the parameter block is the number of records written.
C4_LandmarkCapacity ==
    /\ Len(renderer.landmarks) <= LandmarkCapacity
    /\ Len(renderer.landmark_buffer) <= LandmarkCapacity
    /\ renderer.uniform_buffer.num_landmarks = Len(renderer.landmark_buffer)
    /\ called = "update" => renderer.landmark_buffer = renderer.landmarks

C4_Witness ==
    /\ called = "update"
    /\ Len(renderer.landmark_buffer) = 3
    /\ renderer.uniform_buffer.num_landmarks = 3
    /\ renderer.landmark_buffer[2].observed_dist > 0

\* 16 * groups >= dim, and 16 * (groups - 1) < dim when dim > 0, in the
\* integers: the tiles cover the dimension and none lies wholly outside it.
TilesFit(groups, dim) ==
    LET g == U32Val(groups)
        d == U32Val(dim)
    IN  /\ g >= 2^27 \/ TileSize * g >= d
        /\ d > 0 => (g >= 1 /\ TileSize * (g - 1) < d)

\* C8: the grid a render tick dispatches, (width + 15) / 16 by
\* (height + 15) / 16 workgroups of 16 x 16, covers every pixel of the
\* output and has no tile wholly outside it.
C8_DispatchCoversOutput ==
    tick.result # "" =>
        /\ TilesFit(tick.groups[1], renderer.width)
        /\ TilesFit(tick.groups[2], renderer.height)
        /\ tick.groups[3] = U32(1)
        /\ tick.commands[1].cmd = "dispatch"
        /\ tick.commands[1].groups = tick.groups

C8_Witness ==
    /\ tick.result # ""
    /\ renderer.width = U32(2147483647)
    /\ tick.groups[1] = U32(2^27)
    /\ tick.groups[2] = U32(2^27 - 1)

\* C9: in every render tick the evaluator's input and output are the two
\* different buffers of the pair; the input of a tick is the buffer the tick
\* before wrote, so the frame it reads is that tick's output; and no command
\* copies into A or B.
C9_FeedbackChain ==
    /\ [](renders >= 1 =>
            /\ {tick.input, tick.output} = {"A", "B"}
            /\ Texture(tick.output).prev = renders - 1
            /\ Texture(tick.input).tick = renders - 1
            /\ \A i \in 1..Len(tick.commands) :
                    tick.commands[i].cmd = "copy" =>
                        tick.commands[i].to = "frame")
    /\ [][(called' = "render" /\ renders >= 1) =>
                tick'.input = tick.output]_vars

C9_Witness ==
    /\ renders = 3
    /\ tick.input = "A"
    /\ tick.output = "B"
    /\ renderer.texture_b = [tick |-> 3, prev |-> 2]
    /\ renderer.texture_a = [tick |-> 2, prev |-> 1]

\* The place of a step among the host steps of the tick (0: absent).
StepIndex(step) ==
    IF \E i \in 1..Len(tick.host) : tick.host[i] = step
    THEN CHOOSE i \in 1..Len(tick.host) : tick.host[i] = step
    ELSE 0

\* C10: a render tick that acquires a surface frame copies to it the buffer
\* bound as the evaluator's output in that tick, after that tick's dispatch,
\* so the frame shown is the tick's own output; and it presents only after
\* dispatch and copy were submitted.
C10_PresentsOwnOutput ==
    tick.result = "Ok" =>
        /\ tick.source = tick.output
        /\ Len(tick.commands) = 2
        /\ tick.commands[1].cmd = "dispatch"
        /\ tick.commands[2].cmd = "copy"
        /\ tick.commands[2].from = tick.commands[1].to
        /\ renderer.surface.frame = Texture(tick.output)
        /\ renderer.surface.frame.tick = renders
        /\ 0 < StepIndex("dispatch_workgroups")
        /\ StepIndex("dispatch_workgroups") < StepIndex("copy_texture_to_texture")
        /\ StepIndex("copy_texture_to_texture") < StepIndex("submit")
        /\ StepIndex("submit") < StepIndex("present")

C10_Witness ==
    /\ tick.result = "Ok"
    /\ renders = 2
    /\ renderer.surface.frame = [tick |-> 2, prev |-> 1]
    /\ tick.output = "A"

----------------------------------------------------------------------------
(* The landmark store's and the field model's properties *)

\* Two landmarks agree in everything but observed_dist.
SameButObserved(a, b) ==
    /\ a.position = b.position
    /\ a.confidence = b.confidence
    /\ a.phase_offset = b.phase_offset

\* C5: the store is append-only with stable indices. add_landmark(x, y)
\* makes the store one longer, puts the record (position (x, y),
\* observed_dist 0, confidence 1.0, phase_offset 0) last and leaves every
\* field of every earlier landmark as it was; observe and probability_at
\* keep the count, and no call moves a landmark to another index.
C5_AppendOnly ==
    [][LET old == core.landmarks
           now == core'.landmarks
       IN  /\ Len(now) >= Len(old)
           /\ \A i \in 1..Len(old) : SameButObserved(now[i], old[i])
           /\ call'.op = "add_landmark" =>
                /\ Len(now) = Len(old) + 1
                /\ now[Len(now)] =
                      [position |-> <<call'.x, call'.y>>, observed_dist |-> 0,
                       confidence |-> One, phase_offset |-> 0]
                /\ \A i \in 1..Len(old) : now[i] = old[i]
           /\ call'.op # "add_landmark" => Len(now) = Len(old)
           /\ call'.op = "probability_at" => now = old]_vars

C5_Witness ==
    /\ call.op = "add_landmark"
    /\ Len(core.landmarks) = 2
    /\ core.landmarks[1].position = <<3 * One, 4 * One>>
    /\ core.landmarks[1].observed_dist = 5 * One
    /\ core.landmarks[2].position = <<One, One>>
    /\ core.landmarks[2].observed_dist = 0

\* The exact squared distance between two of the points, in units of 2^-24
\* (their coordinates are multiples of 2^-12).
SquaredDistance(p, q) ==
    LET dx == (p[1] - q[1]) \div 4096
        dy == (p[2] - q[2]) \div 4096
    IN  dx * dx + dy * dy

\* x * x for 0 <= x < 2^28, as <<high, low>> with x * x = high * 2^26 + low.
WideSquare(x) ==
    LET xh == x \div 8192
        xl == x % 8192
        mid == 2 * xh * xl
        low == (mid % 8192) * 8192 + xl * xl
    IN  <<xh * xh + mid \div 8192 + low \div 2^26, low % 2^26>>

\* d is an f32 nearest to the real square root of s: with u the spacing of
\* the f32 values at d, (d - u/2)^2 <= s <= (d + u/2)^2.
NearestToRoot(d, s) ==
    LET u == 2^ExtraBits(d, 0)
        below == WideSquare(IF d = 0 THEN 0 ELSE 2 * d - u)
        above == WideSquare(2 * d + u)
    IN  /\ d >= 0
        /\ below[1] < s \/ (below[1] = s /\ below[2] = 0)
        /\ above[1] >= s

\* C6: observe(ox, oy) changes nothing but observed_dist, which becomes in
\* every landmark the Euclidean distance from (ox, oy) to its position (the
\* nearest f32 to it; landmark (3,4) and observer (0,0) give 5.0 exactly);
\* count and order stay; the outcome does not depend on the earlier
\* observed_dist (observing again from the same point changes nothing); on
\* an empty store nothing changes.
C6_ObserveSetsDistance ==
    [][call'.op = "observe" =>
        LET old == core.landmarks
            now == core'.landmarks
            o == <<call'.x, call'.y>>
        IN  /\ core'.wave_number = core.wave_number
            /\ Len(now) = Len(old)
            /\ \A i \in 1..Len(old) :
                /\ SameButObserved(now[i], old[i])
                /\ NearestToRoot(now[i].observed_dist,
                                 SquaredDistance(old[i].position, o))
                /\ (old[i].position = <<3 * One, 4 * One>> /\ o = <<0, 0>>)
                        => now[i].observed_dist = 5 * One
            /\ observe(core', o[1], o[2]) = core'
            /\ Len(old) = 0 => core' = core]_vars

C6_Witness ==
    /\ call = [op |-> "observe", x |-> 0, y |-> 0, ret |-> NoRet]
    /\ Len(core.landmarks) = 2
    /\ core.landmarks[1].position = <<3 * One, 4 * One>>
    /\ core.landmarks[1].observed_dist = 5 * One
    /\ core.landmarks[2].position = <<One, One>>
    /\ core.landmarks[2].observed_dist = 23726566

\* C7: with one landmark (confidence 1.0) in the store, observe(p) followed
\* by probability_at(p) for the same point p, with no observe in between,
\* finds residual 0 for the landmark and returns exactly 1.0.
C7_PerfectMatchPeak ==
    ( /\ call.op = "probability_at"
      /\ Len(core.landmarks) = 1
      /\ observer = <<call.x, call.y>> ) =>
        /\ core.landmarks[1].confidence = One
        /\ Residual(core.landmarks[1], call.x, call.y) = 0
        /\ call.ret = One

C7_Witness ==
    /\ call.op = "probability_at"
    /\ Len(core.landmarks) = 1
    /\ observer = <<call.x, call.y>>
    /\ core.landmarks[1].position = <<-Half, Half>>
    /\ observer = <<One, One>>
    /\ core.landmarks[1].observed_dist % One # 0
    /\ call.ret = One

====
